---- MODULE Spec2Model ----
(***************************************************************************)
(* Request authorization pipeline of the fullstack-starter backend:        *)
(* gorilla/mux router (handlers/router.go), the CORS, Auth and Authorize   *)
(* middlewares (middleware/), the JWT verifier (pkg/jwt/jwt.go), the user  *)
(* synchronisation service (services/user_service.go) on the users table   *)
(* (migrations/000001) and the auth controllers (controllers/).            *)
(***************************************************************************)
EXTENDS Integers, Sequences, FiniteSets, TLC

(***************************************************************************)
(* Bounds                                                                  *)
(***************************************************************************)
\* the database clock NOW() and the verifier's clock run over 0..MaxTime
MaxTime == 1

\* requests that the server handles concurrently (one goroutine each)
Reqs == {"r1", "r2"}

\* subject identifiers (uuid) that tokens are issued for
Subjects == {"A", "B"}

(***************************************************************************)
(* Tokens                                                                  *)
(***************************************************************************)
\* expiry of a token that stays valid during the whole run
FarExp == MaxTime + 1
\* a token without an "exp" claim
NoExp == -1

\* the key pair of the auth-service; the backend holds the public half
PublicKey == "authPub"
PrivateKeyOf(pub) == IF pub = "authPub" THEN "authPriv" ELSE "unknown"

\* A compact token as issued (or forged): form is "jws" for three
\* well-formed base64url segments, alg is the header's "alg", signer is the
\* key material that produced the signature segment.
Tok(form, alg, signer, exp, sub, email, name) ==
    [form |-> form, alg |-> alg, signer |-> signer, exp |-> exp,
     sub |-> sub, email |-> email, name |-> name]

TokenTable ==
    [tA1     |-> Tok("jws", "RS256", "authPriv",  FarExp, "A", "e1", "n1"),
     tA2     |-> Tok("jws", "RS256", "authPriv",  FarExp, "A", "e2", "n2"),
     tB      |-> Tok("jws", "RS256", "authPriv",  FarExp, "B", "e2", "n1"),
     tExp    |-> Tok("jws", "RS256", "authPriv",  1,      "A", "e1", "n1"),
     tNoExp  |-> Tok("jws", "RS256", "authPriv",  NoExp,  "A", "e1", "n1"),
     tRS384  |-> Tok("jws", "RS384", "authPriv",  FarExp, "A", "e1", "n1"),
     tPS256  |-> Tok("jws", "PS256", "authPriv",  FarExp, "A", "e1", "n1"),
     tOther  |-> Tok("jws", "RS256", "otherPriv", FarExp, "A", "e1", "n1"),
     tHS256  |-> Tok("jws", "HS256", "authPub",   FarExp, "A", "e1", "n1"),
     tNone   |-> Tok("jws", "none",  "nosig",     FarExp, "A", "e1", "n1"),
     tBad    |-> Tok("bad", "RS256", "authPriv",  FarExp, "A", "e1", "n1")]

TokenIds == DOMAIN TokenTable

\* the separator of strings.SplitN(authHeader, " ", 2)
SP == " "

\* Authorization header values, as sequences of words and spaces
Headers ==
    { <<>>,
      <<"Bearer">>,
      <<"Basic", SP, "tA1">>,
      <<"bearer", SP, "tA1">>,
      <<"Bearer", SP, SP, "tA1">>,
      <<"Bearer", SP, "tA1", SP, "tA1">> }
    \cup { <<"Bearer", SP, t>> : t \in TokenIds }

(***************************************************************************)
(* pkg/jwt: ValidateAccessToken                                            *)
(***************************************************************************)
NoClaims == [sub |-> "-", email |-> "-", name |-> "-", exp |-> NoExp]

\* what one call of ValidateAccessToken yields: err is "" on success,
\* keyHanded tells whether the key function returned the public key to
\* the library's signature verifier
VResult(err, claims, keyHanded) ==
    [err |-> err, claims |-> claims, keyHanded |-> keyHanded]

\* signing methods registered in golang-jwt and their Go types
RegisteredAlgs ==
    {"RS256", "RS384", "RS512", "PS256", "PS384", "PS512",
     "ES256", "ES384", "ES512", "HS256", "HS384", "HS512", "none", "EdDSA"}

MethodType(alg) ==
    CASE alg \in {"RS256", "RS384", "RS512"} -> "SigningMethodRSA"
      [] alg \in {"PS256", "PS384", "PS512"} -> "SigningMethodRSAPSS"
      [] alg \in {"ES256", "ES384", "ES512"} -> "SigningMethodECDSA"
      [] alg \in {"HS256", "HS384", "HS512"} -> "SigningMethodHMAC"
      [] alg = "none"                        -> "signingMethodNone"
      [] OTHER                               -> "SigningMethodEd25519"

\* the compact token string parses as a JWS: one word, three segments
ParsesAsJWS(tokenString) ==
    /\ Len(tokenString) = 1
    /\ tokenString[1] \in TokenIds
    /\ TokenTable[tokenString[1]].form = "jws"

\* a key function that returns the key whatever the declared method
KeyFuncAcceptsAny(alg) == TRUE

\* jwt.go:23-27, the key function: the method must be *SigningMethodRSA
KeyFuncAccepts(alg) == MethodType(alg) = "SigningMethodRSA"

\* token.Method.Verify(signingString, signature, key)
SignatureVerifies(tok, key) ==
    CASE MethodType(tok.alg) \in {"SigningMethodRSA", "SigningMethodRSAPSS"} ->
             key = PublicKey /\ tok.signer = PrivateKeyOf(key)
      [] OTHER -> FALSE   \* an *rsa.PublicKey is not a key of these methods

\* the registered-claims validation of jwt.ParseWithClaims at time t
ClaimsValidAt(tok, t) == tok.exp = NoExp \/ t < tok.exp

ClaimsOf(tok) ==
    [sub |-> tok.sub, email |-> tok.email, name |-> tok.name, exp |-> tok.exp]

ValidateAccessToken(tokenString, publicKey, t) ==
    IF ~ParsesAsJWS(tokenString)
    THEN VResult("malformed", NoClaims, FALSE)
    ELSE LET tok == TokenTable[tokenString[1]] IN
         IF tok.alg \notin RegisteredAlgs
         THEN VResult("unavailable", NoClaims, FALSE)
         ELSE IF ~KeyFuncAccepts(tok.alg)
         THEN VResult("unexpected signing method", NoClaims, FALSE)
         ELSE IF ~SignatureVerifies(tok, publicKey)
         THEN VResult("signature", NoClaims, TRUE)
         ELSE IF ~ClaimsValidAt(tok, t)
         THEN VResult("expired", NoClaims, TRUE)
         ELSE VResult("", ClaimsOf(tok), TRUE)

(***************************************************************************)
(* users table and services/user_service.go                                *)
(***************************************************************************)
NULL == "NULL"

\* a row of the users table (models.User); exists = FALSE stands for no row
UserRow(id, email, name, active, created, updated) ==
    [exists |-> TRUE, id |-> id, email |-> email, name |-> name,
     google_id |-> NULL, avatar_url |-> NULL, is_active |-> active,
     created_at |-> created, updated_at |-> updated]

NoRow ==
    [exists |-> FALSE, id |-> "-", email |-> "-", name |-> "-",
     google_id |-> NULL, avatar_url |-> NULL, is_active |-> FALSE,
     created_at |-> 0, updated_at |-> 0]

\* a users table without the UNIQUE constraint on email
EmailTakenNever(table, userID, email) == FALSE

\* email VARCHAR(255) NOT NULL UNIQUE: another row already holds the email
EmailTaken(table, userID, email) ==
    \E o \in Subjects : o # userID /\ table[o].exists /\ table[o].email = email

\* an upsert whose update also sets is_active back to its default
UpsertRowReactivate(table, userID, email, name, t) ==
    IF table[userID].exists
    THEN [table[userID] EXCEPT !.email = email, !.name = name,
                               !.updated_at = t, !.is_active = TRUE]
    ELSE UserRow(userID, email, name, TRUE, t, t)

\* an upsert that replaces the row it conflicts with by a new one
UpsertRowReplace(table, userID, email, name, t) ==
    IF table[userID].exists
    THEN UserRow(userID, email, name, table[userID].is_active, t, t)
    ELSE UserRow(userID, email, name, TRUE, t, t)

\* the row that INSERT ... ON CONFLICT (id) DO UPDATE writes at time t
UpsertRow(table, userID, email, name, t) ==
    IF table[userID].exists
    THEN [table[userID] EXCEPT !.email = email, !.name = name, !.updated_at = t]
    ELSE UserRow(userID, email, name, TRUE, t, t)

\* outcomes of the persistence layer for one statement
DBOutcomes == {"ok", "fail", "cancel"}

\* a sync that returns a user built from its arguments, not the row read
\* back by RETURNING
CreateOrUpdateUserNoReturning(table, userID, email, name, t, outcome) ==
    IF outcome = "fail"
    THEN [table |-> table, user |-> NoRow, err |-> "fail"]
    ELSE IF EmailTaken(table, userID, email)
    THEN [table |-> table, user |-> NoRow, err |-> "unique"]
    ELSE LET row == UpsertRow(table, userID, email, name, t) IN
         IF outcome = "ok"
         THEN [table |-> [table EXCEPT ![userID] = row],
               user |-> UserRow(userID, email, name, TRUE, t, t), err |-> ""]
         ELSE [table |-> [table EXCEPT ![userID] = row], user |-> NoRow,
               err |-> "cancel"]

\* a sync that inserts without ON CONFLICT: a second call for the subject
\* fails on the primary key
CreateOrUpdateUserInsertOnly(table, userID, email, name, t, outcome) ==
    IF outcome = "fail"
    THEN [table |-> table, user |-> NoRow, err |-> "fail"]
    ELSE IF table[userID].exists \/ EmailTaken(table, userID, email)
    THEN [table |-> table, user |-> NoRow, err |-> "unique"]
    ELSE LET row == UserRow(userID, email, name, TRUE, t, t) IN
         IF outcome = "ok"
         THEN [table |-> [table EXCEPT ![userID] = row], user |-> row, err |-> ""]
         ELSE [table |-> [table EXCEPT ![userID] = row], user |-> NoRow,
               err |-> "cancel"]

\* CreateOrUpdateUser(ctx, userID, email, name): the table after the call,
\* the returned *models.User (NoRow for nil) and the returned error.
\*   ok      the statement runs and its row is scanned
\*   fail    the connection fails or the request context is cancelled before
\*           the statement runs: nothing is written
\*   cancel  the request context is cancelled after the statement committed
\*           and before its row is scanned
CreateOrUpdateUser(table, userID, email, name, t, outcome) ==
    IF outcome = "fail"
    THEN [table |-> table, user |-> NoRow, err |-> "fail"]
    ELSE IF EmailTaken(table, userID, email)
    THEN [table |-> table, user |-> NoRow, err |-> "unique"]
    ELSE LET row == UpsertRow(table, userID, email, name, t) IN
         IF outcome = "ok"
         THEN [table |-> [table EXCEPT ![userID] = row], user |-> row, err |-> ""]
         ELSE [table |-> [table EXCEPT ![userID] = row], user |-> NoRow,
               err |-> "cancel"]

\* DeactivateUser(ctx, userID): UPDATE users SET is_active = false ...
DeactivateRow(table, userID, t) ==
    IF table[userID].exists
    THEN [table EXCEPT ![userID].is_active = FALSE, ![userID].updated_at = t]
    ELSE table

(***************************************************************************)
(* handlers/router.go: SetupRouter                                         *)
(***************************************************************************)
Route(methods, pattern, chain, handler) ==
    [methods |-> methods, pattern |-> pattern, chain |-> chain,
     handler |-> handler]

\* global middleware of r.Use, outermost first
GlobalChain == <<"CORS", "Logger", "Recovery">>

\* a router that registers the logout route on the protected subrouter
RouterRoutesLogoutProtected ==
    << Route({"GET", "OPTIONS"},  <<"api", "v1", "health">>, <<>>, "health"),
       Route({"POST", "OPTIONS"}, <<"api", "v1", "auth", "refresh">>, <<>>,
             "RefreshToken"),
       Route({"POST", "OPTIONS"}, <<"api", "v1", "auth", "logout">>, <<"Auth">>,
             "Logout"),
       Route({"GET", "OPTIONS"},  <<"api", "v1", "auth", "me">>, <<"Auth">>,
             "GetCurrentUser") >>

\* routes registered by SetupRouter, in registration order; chain is the
\* middleware of the subrouters the route is registered on
RouterRoutes ==
    << Route({"GET", "OPTIONS"},  <<"api", "v1", "health">>, <<>>, "health"),
       Route({"POST", "OPTIONS"}, <<"api", "v1", "auth", "refresh">>, <<>>,
             "RefreshToken"),
       Route({"POST", "OPTIONS"}, <<"api", "v1", "auth", "logout">>, <<>>,
             "Logout"),
       Route({"GET", "OPTIONS"},  <<"api", "v1", "auth", "me">>, <<"Auth">>,
             "GetCurrentUser") >>

\* application routes on the `authorized` subrouter: the example of the
\* TODO in SetupRouter and the items routes of the README's router
AuthorizedRoutes ==
    << Route({"GET", "OPTIONS"}, <<"api", "v1", "resource">>,
             <<"Auth", "Authorize">>, "GetResource"),
       Route({"GET", "OPTIONS"}, <<"api", "v1", "items">>,
             <<"Auth", "Authorize">>, "GetItems"),
       Route({"DELETE", "OPTIONS"}, <<"api", "v1", "items", "{id}">>,
             <<"Auth", "Authorize">>, "DeleteItem") >>

Routes == RouterRoutes \o AuthorizedRoutes

NoRoute == Route({}, <<>>, <<>>, "-")

\* a path variable {id:[0-9]+} matches a numeric segment
Numeric == {"42"}

SegmentMatches(pat, seg) == IF pat = "{id}" THEN seg \in Numeric ELSE pat = seg

PathMatches(pattern, path) ==
    /\ Len(pattern) = Len(path)
    /\ \A i \in 1..Len(pattern) : SegmentMatches(pattern[i], path[i])

\* mux.Router.Match: the first route matching path and method; 405 when
\* only the method fails to match, 404 otherwise
MatchRoute(method, path) ==
    LET hits == {i \in 1..Len(Routes) :
                    PathMatches(Routes[i].pattern, path)
                    /\ method \in Routes[i].methods}
        pathHits == {i \in 1..Len(Routes) : PathMatches(Routes[i].pattern, path)}
    IN  IF hits # {}
        THEN [status |-> 0,
              route |-> Routes[CHOOSE i \in hits : \A j \in hits : i <= j]]
        ELSE IF pathHits # {}
        THEN [status |-> 405, route |-> NoRoute]
        ELSE [status |-> 404, route |-> NoRoute]

(***************************************************************************)
(* Casbin rule set (migrations/000002) and the enforcer                    *)
(***************************************************************************)
Rule(sub, obj, act) == [sub |-> sub, obj |-> obj, act |-> act]

\* the rows seeded into casbin_rule, loaded by enforcer.LoadPolicy()
DefaultPolicies ==
    { Rule("user", <<"api", "v1", "auth", "me">>, {"GET"}),
      Rule("user", <<"api", "v1", "items">>, {"GET", "POST"}),
      Rule("user", <<"api", "v1", "items", "*">>, {"GET", "PATCH", "DELETE"}) }

\* a matcher that compares the path with the pattern literally
KeyMatchExact(path, pattern) == path = pattern

\* resource pattern: equal, or equal up to a trailing wildcard segment
KeyMatch(path, pattern) ==
    IF Len(pattern) > 0 /\ pattern[Len(pattern)] = "*"
    THEN /\ Len(path) >= Len(pattern)
         /\ \A i \in 1..(Len(pattern) - 1) : path[i] = pattern[i]
    ELSE path = pattern

\* enforcer.Enforce(sub, obj, act) without an internal fault
Enforce(rules, sub, obj, act) ==
    \E p \in rules : p.sub = sub /\ KeyMatch(obj, p.obj) /\ act \in p.act

(***************************************************************************)
(* Request context (context.WithValue) and its typed keys                  *)
(***************************************************************************)
\* a context key is a (Go type, string) pair: contextKey("userID") and the
\* plain string "user" are different keys
UserIDKey == <<"contextKey", "userID">>
EmailKey  == <<"contextKey", "email">>
NameKey   == <<"contextKey", "name">>
UserStringKey == <<"string", "user">>

CtxKeys == {UserIDKey, EmailKey, NameKey, UserStringKey}
Absent == "<nil>"
EmptyCtx == [k \in CtxKeys |-> Absent]

WithValue(ctx, key, val) == [ctx EXCEPT ![key] = val]

\* a GetUserID that looks the user up under the plain string key "user"
GetUserIDStringKey(ctx) ==
    [userID |-> ctx[UserStringKey], ok |-> ctx[UserStringKey] \in Subjects]

\* GetUserID(ctx): the value and whether it is a uuid.UUID
GetUserID(ctx) == [userID |-> ctx[UserIDKey], ok |-> ctx[UserIDKey] \in Subjects]

(***************************************************************************)
(* State                                                                   *)
(***************************************************************************)
\* now:    wall clock, NOW() of the database and time.Now() of the verifier
\* users:  the users table, subject id -> row
\* policy: the rule set held by the Casbin enforcer
\* req:    the requests being served, request id -> request state
\* proc:   the server process: its phase, the JWT public key of its
\*         configuration, the number of key fetches it made and the rule
\*         set its enforcer loaded at startup
\* fe:     the AuthProvider of the frontend in one browser tab
VARIABLES now, users, policy, req, proc, fe

vars == <<now, users, policy, req, proc, fe>>

\* cfg.JWTPublicKey before config.Load has set it
NoKey == "nil"

Process(phase, key, fetches, snapshot) ==
    [phase |-> phase, key |-> key, fetches |-> fetches, snapshot |-> snapshot]

\* an access token as the frontend sees it: the exp of its payload, NoExp
\* when getTokenExpiry cannot decode one
FeToken(exp) == [set |-> TRUE, exp |-> exp]

\* null: no token in sessionStorage, accessToken === null
NoToken == [set |-> FALSE, exp |-> NoExp]

\* the timer of the refresh effect: pending with its due time, or none
Timer(due) == [on |-> TRUE, due |-> due]
NoTimer == [on |-> FALSE, due |-> 0]

\* AuthProvider after mount with an empty sessionStorage.  inflight holds
\* the asynchronous calls whose fetch has not returned; loggedOut and last
\* record the last logout and the last event
SignedOut ==
    [storage |-> NoToken, accessToken |-> NoToken, user |-> FALSE,
     timer |-> NoTimer, inflight |-> {}, loggedOut |-> FALSE,
     last |-> <<"mount", "ok">>]

IdleReq ==
    [pc |-> "idle", method |-> "-", path |-> <<>>, header |-> <<>>,
     route |-> NoRoute, verr |-> "-", keyHanded |-> FALSE,
     claims |-> NoClaims, synced |-> "-", syncErr |-> "-",
     found |-> "-", syncCalls |-> 0, enforceCalls |-> 0, writes |-> 0,
     ctx |-> EmptyCtx, status |-> 0, by |-> "-", trace |-> <<>>]

\* request lines the clients send
Me == <<"api", "v1", "auth", "me">>
Items == <<"api", "v1", "items">>

Bearer(t) == <<"Bearer", SP, t>>

\* tokens that verify at some time of the run and differ in their claims
SessionTokens == {"tA1", "tA2", "tB"}

\* requests on the application routes and the public routes
AppRequests ==
    ({ <<"GET", <<"api", "v1", "resource">>>>, <<"GET", Items>>,
       <<"DELETE", Items \o <<"42">>>> } \X { Bearer("tA1"), Bearer("tB") })
    \cup
    ({ <<"GET", <<"api", "v1", "health">>>>,
       <<"POST", <<"api", "v1", "auth", "refresh">>>>,
       <<"POST", <<"api", "v1", "auth", "logout">>>>,
       <<"OPTIONS", Me>>, <<"POST", Me>>,
       <<"OPTIONS", <<"api", "v1", "health">>>>,
       <<"OPTIONS", Items \o <<"42">>>>,
       <<"GET", <<"api", "v1", "nothing">>>> } \X { <<>>, Bearer("tA1") })

\* the requests of the pipeline's cases: every kind of header on
\* GET /auth/me, and the application and public requests
Requests == ({<<"GET", Me>>} \X Headers) \cup AppRequests

\* the requests of signed-in sessions
SessionRequests ==
    ({<<"GET", Me>>} \X {Bearer(t) : t \in SessionTokens})
    \cup ({<<"GET", Items>>} \X {Bearer("tA1")})

Init ==
    /\ now = 0
    /\ users = [s \in Subjects |-> NoRow]
    /\ policy = DefaultPolicies
    /\ req = [r \in Reqs |-> IdleReq]
    /\ proc = Process("serving", PublicKey, 1, DefaultPolicies)
    /\ fe = SignedOut

\* middleware without authorization semantics: calls next unconditionally
PassThrough == {"Logger", "Recovery"}

\* a router whose routes miss the middleware of their subrouters
FullChainNoRouteMw(route) == GlobalChain \o <<"handler">>

FullChain(route) == GlobalChain \o route.chain \o <<"handler">>

\* the stage that next.ServeHTTP of `stage` runs
NextStage(route, stage) ==
    LET chain == SelectSeq(FullChain(route), LAMBDA m : m \notin PassThrough)
        i == CHOOSE k \in 1..Len(chain) : chain[k] = stage
    IN  chain[i + 1]

\* a middleware that writes its error response and calls next all the same
RespondNoReturn(q, who, code) ==
    [q EXCEPT !.status = code, !.by = who,
              !.pc = IF who \in {"Auth", "Authorize"}
                     THEN NextStage(q.route, who) ELSE "done"]

\* http.Error / WriteHeader followed by return: the request ends with the
\* status, written by `who`
Respond(q, who, code) ==
    [q EXCEPT !.pc = "done", !.status = code, !.by = who]

(***************************************************************************)
(* Actions                                                                 *)
(***************************************************************************)
\* the server accepts a request and the router matches it
Receive(r, inputs) ==
    /\ proc.phase = "serving"
    /\ req[r].pc \in {"idle", "done"}
    /\ \E in \in inputs :
         LET line == in[1]
             m == MatchRoute(line[1], line[2])
             q == [IdleReq EXCEPT !.method = line[1], !.path = line[2],
                                  !.header = in[2], !.route = m.route]
         IN  req' = [req EXCEPT ![r] =
                        IF m.status = 0
                        THEN [q EXCEPT !.pc = "CORS"]
                        ELSE Respond(q, "mux", m.status)]
    /\ UNCHANGED <<now, users, policy, proc, fe>>

\* a CORS that sets the headers and always calls next
CORSOutcomeNoPreflight(method) == 0

\* cors.go:16-21: the status CORS answers a preflight with, 0 for calling
\* next
CORSOutcome(method) == IF method = "OPTIONS" THEN 204 ELSE 0

\* middleware.CORS
CORS(r) ==
    /\ req[r].pc = "CORS"
    /\ req' = [req EXCEPT ![r] =
                 IF CORSOutcome(req[r].method) # 0
                 THEN Respond(req[r], "CORS", CORSOutcome(req[r].method))
                 ELSE [req[r] EXCEPT !.pc = NextStage(req[r].route, "CORS")]]
    /\ UNCHANGED <<now, users, policy, proc, fe>>

(***************************************************************************)
(* middleware/auth.go: Auth                                                *)
(***************************************************************************)
\* strings.SplitN(s, " ", 2)
SplitN2(s) ==
    LET sps == {i \in 1..Len(s) : s[i] = SP} IN
    IF sps = {}
    THEN <<s>>
    ELSE LET i == CHOOSE k \in sps : \A j \in sps : k <= j
         IN  <<SubSeq(s, 1, i - 1), SubSeq(s, i + 1, Len(s))>>

\* a header check that does not compare the scheme
BearerTokenAnyScheme(authHeader) ==
    IF authHeader = <<>>
    THEN [ok |-> FALSE, tokenString |-> <<>>]
    ELSE LET parts == SplitN2(authHeader) IN
         IF Len(parts) # 2
         THEN [ok |-> FALSE, tokenString |-> <<>>]
         ELSE [ok |-> TRUE, tokenString |-> parts[2]]

\* auth.go:27-39: the bearer token of the Authorization header
BearerToken(authHeader) ==
    IF authHeader = <<>>
    THEN [ok |-> FALSE, tokenString |-> <<>>]
    ELSE LET parts == SplitN2(authHeader) IN
         IF Len(parts) # 2 \/ parts[1] # <<"Bearer">>
         THEN [ok |-> FALSE, tokenString |-> <<>>]
         ELSE [ok |-> TRUE, tokenString |-> parts[2]]

\* an Auth that turns a failed sync into an internal error
AuthOutcomeFailClosed(user, err) ==
    IF err # "" THEN 500 ELSE IF user.exists /\ ~user.is_active THEN 403 ELSE 0

\* an Auth that answers a sync refused for its email with a conflict
AuthOutcomeRejectsConflict(user, err) ==
    IF err = "unique" THEN 409
    ELSE IF user.exists /\ ~user.is_active THEN 403 ELSE 0

\* an Auth without the active check
AuthOutcomeNoActiveCheck(user, err) == 0

\* auth.go:48-58: the status Auth answers with once the sync has returned
\* (0: no response, the request goes on); a sync error is only logged
AuthOutcome(user, err) ==
    IF user.exists /\ ~user.is_active THEN 403 ELSE 0

\* what Auth saw of the *models.User that the sync returned
Seen(user) ==
    IF ~user.exists THEN "nil" ELSE IF user.is_active THEN "active" ELSE "inactive"

\* the row the sync met for the claims' subject: none, one with the same
\* email and name, or one with another email or name
Found(table, c) ==
    IF ~table[c.sub].exists THEN "absent"
    ELSE IF table[c.sub].email = c.email /\ table[c.sub].name = c.name
    THEN "same" ELSE "changed"

\* an Auth that syncs the claims of the token before it validates the token
AuthRunSyncFirst(route, q, key, table, t, outcome) ==
    LET b == BearerToken(q.header)
        v == ValidateAccessToken(b.tokenString, key, t)
        parsed == ParsesAsJWS(b.tokenString)
        c == IF parsed THEN ClaimsOf(TokenTable[b.tokenString[1]]) ELSE NoClaims
        res == CreateOrUpdateUser(table, c.sub, c.email, c.name, t, outcome)
        code == AuthOutcome(res.user, res.err)
        synced == [q EXCEPT
                     !.verr = v.err, !.keyHanded = v.keyHanded,
                     !.claims = c, !.synced = Seen(res.user),
                     !.found = Found(table, c),
                     !.syncErr = res.err, !.syncCalls = @ + 1,
                     !.writes = @ + (IF res.err \in {"", "cancel"} THEN 1 ELSE 0),
                     !.trace = @ \o <<"verified", "synced">>]
        ctx == WithValue(WithValue(WithValue(q.ctx,
                   UserIDKey, c.sub), EmailKey, c.email), NameKey, c.name)
    IN  IF ~b.ok \/ ~parsed
        THEN [q |-> Respond(q, "Auth", 401), table |-> table]
        ELSE IF v.err # ""
        THEN [q |-> Respond(synced, "Auth", 401), table |-> res.table]
        ELSE IF code # 0
        THEN [q |-> Respond(synced, "Auth", code), table |-> res.table]
        ELSE [q |-> [synced EXCEPT !.ctx = ctx,
                                   !.pc = NextStage(route, "Auth")],
              table |-> res.table]

\* an Auth that reads the subject's row and rejects an inactive subject
\* before it writes
AuthRunCheckFirst(route, q, key, table, t, outcome) ==
    LET b == BearerToken(q.header)
        v == ValidateAccessToken(b.tokenString, key, t)
        c == v.claims
        res == IF table[c.sub].exists /\ ~table[c.sub].is_active
               THEN [table |-> table, user |-> table[c.sub], err |-> ""]
               ELSE CreateOrUpdateUser(table, c.sub, c.email, c.name, t,
                                       outcome)
        code == AuthOutcome(res.user, res.err)
        synced == [q EXCEPT
                     !.verr = v.err, !.keyHanded = v.keyHanded,
                     !.claims = c, !.synced = Seen(res.user),
                     !.found = Found(table, c),
                     !.syncErr = res.err, !.syncCalls = @ + 1,
                     !.writes = @ + (IF res.err \in {"", "cancel"} THEN 1 ELSE 0),
                     !.trace = @ \o <<"verified", "synced">>]
        ctx == WithValue(WithValue(WithValue(q.ctx,
                   UserIDKey, c.sub), EmailKey, c.email), NameKey, c.name)
    IN  IF ~b.ok
        THEN [q |-> Respond(q, "Auth", 401), table |-> table]
        ELSE IF v.err # ""
        THEN [q |-> Respond([q EXCEPT !.verr = v.err,
                                      !.keyHanded = v.keyHanded], "Auth", 401),
              table |-> table]
        ELSE IF code # 0
        THEN [q |-> Respond(synced, "Auth", code), table |-> res.table]
        ELSE [q |-> [synced EXCEPT !.ctx = ctx,
                                   !.pc = NextStage(route, "Auth")],
              table |-> res.table]

\* an Auth that calls CreateOrUpdateUser a second time when the first call
\* returned an error
AuthRunRetry(route, q, key, table, t, outcome) ==
    LET b == BearerToken(q.header)
        v == ValidateAccessToken(b.tokenString, key, t)
        c == v.claims
        first == CreateOrUpdateUser(table, c.sub, c.email, c.name, t, outcome)
        again == CreateOrUpdateUser(first.table, c.sub, c.email, c.name, t, "ok")
        res == IF first.err # "" THEN again ELSE first
        calls == IF first.err # "" THEN 2 ELSE 1
        commits == (IF first.err \in {"", "cancel"} THEN 1 ELSE 0)
                   + (IF first.err # "" /\ again.err = "" THEN 1 ELSE 0)
        code == AuthOutcome(res.user, res.err)
        synced == [q EXCEPT
                     !.verr = v.err, !.keyHanded = v.keyHanded,
                     !.claims = c, !.synced = Seen(res.user),
                     !.found = Found(table, c),
                     !.syncErr = res.err, !.syncCalls = @ + calls,
                     !.writes = @ + commits,
                     !.trace = @ \o <<"verified", "synced">>]
        ctx == WithValue(WithValue(WithValue(q.ctx,
                   UserIDKey, c.sub), EmailKey, c.email), NameKey, c.name)
    IN  IF ~b.ok
        THEN [q |-> Respond(q, "Auth", 401), table |-> table]
        ELSE IF v.err # ""
        THEN [q |-> Respond([q EXCEPT !.verr = v.err,
                                      !.keyHanded = v.keyHanded], "Auth", 401),
              table |-> table]
        ELSE IF code # 0
        THEN [q |-> Respond(synced, "Auth", code), table |-> res.table]
        ELSE [q |-> [synced EXCEPT !.ctx = ctx,
                                   !.pc = NextStage(route, "Auth")],
              table |-> res.table]

\* auth.go:26-65, one run of the handler of the Auth middleware on request
\* state q, with the users table `table`, at time t, the persistence layer
\* answering the sync with `outcome`: header and token checks, the sync of
\* the claims into the users table, the active check, then the claims are
\* stored in the request context and next is called.  Yields the request
\* state and the table after the run.
AuthRun(route, q, key, table, t, outcome) ==
    LET b == BearerToken(q.header)
        v == ValidateAccessToken(b.tokenString, key, t)
        c == v.claims
        res == CreateOrUpdateUser(table, c.sub, c.email, c.name, t, outcome)
        code == AuthOutcome(res.user, res.err)
        synced == [q EXCEPT
                     !.verr = v.err, !.keyHanded = v.keyHanded,
                     !.claims = c, !.synced = Seen(res.user),
                     !.found = Found(table, c),
                     !.syncErr = res.err, !.syncCalls = @ + 1,
                     !.writes = @ + (IF res.err \in {"", "cancel"} THEN 1 ELSE 0),
                     !.trace = @ \o <<"verified", "synced">>]
        ctx == WithValue(WithValue(WithValue(q.ctx,
                   UserIDKey, c.sub), EmailKey, c.email), NameKey, c.name)
    IN  IF ~b.ok
        THEN [q |-> Respond(q, "Auth", 401), table |-> table]
        ELSE IF v.err # ""
        THEN [q |-> Respond([q EXCEPT !.verr = v.err,
                                      !.keyHanded = v.keyHanded], "Auth", 401),
              table |-> table]
        ELSE IF code # 0
        THEN [q |-> Respond(synced, "Auth", code), table |-> res.table]
        ELSE [q |-> [synced EXCEPT !.ctx = ctx,
                                   !.pc = NextStage(route, "Auth")],
              table |-> res.table]

Auth(r) ==
    /\ req[r].pc = "Auth"
    /\ \E outcome \in DBOutcomes :
         LET run == AuthRun(req[r].route, req[r], proc.key, users, now, outcome)
         IN  /\ req' = [req EXCEPT ![r] = run.q]
             /\ users' = run.table
    /\ UNCHANGED <<now, policy, proc, fe>>

(***************************************************************************)
(* middleware/auth.go: Authorize                                           *)
(***************************************************************************)
\* an Authorize that asks the enforcer about the user instead of the role
EnforceSubjectUserID(userID) == userID

\* auth.go:107-110: the subject Authorize passes to the enforcer is the
\* role "user", whoever the authenticated user is
EnforceSubject(userID) == "user"

\* an Authorize that only looks at the enforcer's error
AuthorizeOutcomeLax(allowed, fault) == IF fault THEN 500 ELSE 0

\* auth.go:110-121: the status Authorize answers with (0: calls next)
AuthorizeOutcome(allowed, fault) ==
    IF fault THEN 500 ELSE IF ~allowed THEN 403 ELSE 0

Authorize(r) ==
    /\ req[r].pc = "Authorize"
    /\ IF ~GetUserID(req[r].ctx).ok
       THEN req' = [req EXCEPT ![r] = Respond(req[r], "Authorize", 401)]
       ELSE \E fault \in BOOLEAN :
              LET sub == EnforceSubject(GetUserID(req[r].ctx).userID)
                  allowed == ~fault /\ Enforce(policy, sub, req[r].path,
                                               req[r].method)
                  code == AuthorizeOutcome(allowed, fault)
                  q == [req[r] EXCEPT !.enforceCalls = @ + 1,
                                      !.trace = Append(@,
                                         IF fault THEN "enforce:fault"
                                         ELSE IF allowed THEN "enforce:allow"
                                         ELSE "enforce:deny")]
              IN  req' = [req EXCEPT ![r] =
                     IF code # 0
                     THEN Respond(q, "Authorize", code)
                     ELSE [q EXCEPT !.pc = NextStage(req[r].route, "Authorize")]]
    /\ UNCHANGED <<now, users, policy, proc, fe>>

(***************************************************************************)
(* controllers and route handlers                                          *)
(***************************************************************************)
\* the status the handler of a route answers with
HandlerStatus(handler, ctx) ==
    CASE handler = "GetCurrentUser" ->
             IF ctx[UserStringKey] # Absent THEN 200 ELSE 401
      [] handler = "RefreshToken" -> 501
      [] handler = "Logout" -> 200
      [] handler = "health" -> 200
      [] OTHER -> 200

Handler(r) ==
    /\ req[r].pc = "handler"
    /\ req' = [req EXCEPT ![r] =
         Respond([req[r] EXCEPT !.trace = Append(@, "dispatched")],
                 req[r].route.handler,
                 HandlerStatus(req[r].route.handler, req[r].ctx))]
    /\ UNCHANGED <<now, users, policy, proc, fe>>

(***************************************************************************)
(* Environment: administration and time                                    *)
(***************************************************************************)
\* services.DeactivateUser called by an administrator
DeactivateUser(s) ==
    /\ users[s].exists /\ users[s].is_active
    /\ users' = DeactivateRow(users, s, now)
    /\ UNCHANGED <<now, policy, req, proc, fe>>

Tick ==
    /\ now < MaxTime
    /\ now' = now + 1
    /\ UNCHANGED <<users, policy, req, proc, fe>>

\* the server taking one request after the other, of every kind
Next ==
    \/ Receive("r1", Requests)
    \/ CORS("r1")
    \/ Auth("r1")
    \/ Authorize("r1")
    \/ Handler("r1")
    \/ \E s \in Subjects : DeactivateUser(s)
    \/ Tick

Spec == Init /\ [][Next]_vars

\* the server handling the requests of signed-in sessions concurrently
NextConc ==
    \/ \E r \in Reqs : Receive(r, SessionRequests)
    \/ \E r \in Reqs : CORS(r)
    \/ \E r \in Reqs : Auth(r)
    \/ \E r \in Reqs : Authorize(r)
    \/ \E r \in Reqs : Handler(r)
    \/ \E s \in Subjects : DeactivateUser(s)
    \/ Tick

SpecConc == Init /\ [][NextConc]_vars

(***************************************************************************)
(* Process start: main.go                                                  *)
(***************************************************************************)
\* the ways fetchPublicKey ends: the key, a transport error, a status other
\* than 200, a body that is no PEM block, a block that is no PKCS1 key
FetchResults == {"ok", "transport", "status", "pem", "parse"}

\* fetchPublicKey: the key of the auth-service, or nil and an error
fetchPublicKey(result) ==
    [key |-> IF result = "ok" THEN PublicKey ELSE NoKey,
     err |-> IF result = "ok" THEN "" ELSE result]

\* a Load that logs the failed fetch and goes on without a key
LoadOutcomeLenient(fetched) == "loaded"

\* Load: log.Fatalf ends the process when the fetch failed
LoadOutcome(fetched) == IF fetched.err # "" THEN "exited" ELSE "loaded"

\* the rule sets the casbin_rule table can hold when the enforcer loads it:
\* the seeded rules, or none when the seeding migration did not run
\* (main.go only warns about failed migrations)
PolicyTables == {DefaultPolicies, {}}

InitBoot ==
    /\ now = 0
    /\ users = [s \in Subjects |-> NoRow]
    /\ policy = {}
    /\ req = [r \in Reqs |-> IdleReq]
    /\ proc = Process("start", NoKey, 0, {})
    /\ fe = SignedOut

\* main.go:18 config.Load: the one fetch of the public key
Load ==
    /\ proc.phase = "start"
    /\ \E result \in FetchResults :
         LET fetched == fetchPublicKey(result)
         IN  proc' = [proc EXCEPT !.phase = LoadOutcome(fetched),
                                  !.key = fetched.key,
                                  !.fetches = @ + 1]
    /\ UNCHANGED <<now, users, policy, req, fe>>

\* main.go:21-54: database, migrations, adapter, enforcer and LoadPolicy;
\* every error but a failed migration ends the process
Bootstrap ==
    /\ proc.phase = "loaded"
    /\ \E ok \in BOOLEAN, rules \in PolicyTables :
         IF ok
         THEN /\ policy' = rules
              /\ proc' = [proc EXCEPT !.phase = "ready", !.snapshot = rules]
         ELSE /\ policy' = policy
              /\ proc' = [proc EXCEPT !.phase = "exited"]
    /\ UNCHANGED <<now, users, req, fe>>

\* main.go:57-66: SetupRouter hands cfg.JWTPublicKey and the enforcer to
\* the middlewares, ListenAndServe starts serving or ends the process
Listen ==
    /\ proc.phase = "ready"
    /\ \E ok \in BOOLEAN :
         proc' = [proc EXCEPT !.phase = IF ok THEN "serving" ELSE "exited"]
    /\ UNCHANGED <<now, users, policy, req, fe>>

\* the process from its start, then serving one request after the other
NextBoot ==
    \/ Load
    \/ Bootstrap
    \/ Listen
    \/ Receive("r1", Requests)
    \/ CORS("r1")
    \/ Auth("r1")
    \/ Authorize("r1")
    \/ Handler("r1")
    \/ \E s \in Subjects : DeactivateUser(s)
    \/ Tick

SpecBoot == InitBoot /\ [][NextBoot]_vars

(***************************************************************************)
(* Frontend: context/AuthContext.tsx, AuthProvider.  Time is in minutes.   *)
(***************************************************************************)
\* the minutes of frontend time that are explored
MaxClock == 4

\* the lifetime of the access tokens the auth service issues
TokenLife == 3

\* refreshBuffer = 2 * 60 * 1000
RefreshBuffer == 2

Max(a, b) == IF a >= b THEN a ELSE b

\* getTokenExpiry(token): the exp of the payload, NoExp for null
getTokenExpiry(token) == token.exp

\* a refresh effect that sets its timer for the expiry itself
RefreshDueAtExpiry(expiry, t) == t + Max(0, expiry - t)

\* the time the refresh effect, run at t, sets its timer for:
\* timeUntilRefresh = Math.max(0, expiry - now - refreshBuffer)
RefreshDue(expiry, t) == t + Max(0, expiry - t - RefreshBuffer)

\* the refresh effect run at time t for accessToken `token`: no timer
\* without a token or without a decodable expiry
RefreshEffect(token, t) ==
    IF ~token.set \/ getTokenExpiry(token) = NoExp
    THEN NoTimer
    ELSE Timer(RefreshDue(getTokenExpiry(token), t))

\* setAccessToken(token) and the render after it: when the value changed,
\* the cleanup of the refresh effect clears the pending timer and the effect
\* runs again
SetAccessToken(f, token, t) ==
    IF token = f.accessToken
    THEN f
    ELSE [f EXCEPT !.accessToken = token, !.timer = RefreshEffect(token, t)]

\* the clearing of the session: removeItem, setAccessToken(null),
\* setUser(null)
ClearSession(f, t) ==
    SetAccessToken([f EXCEPT !.storage = NoToken, !.user = FALSE], NoToken, t)

\* login(): the AUTH_SUCCESS message of the popup arrives with a token
LoginSuccess ==
    /\ \E exp \in {now + TokenLife, NoExp} :
         LET token == FeToken(exp)
             f == SetAccessToken([fe EXCEPT !.storage = token], token, now)
         IN  fe' = [f EXCEPT !.inflight = @ \cup {"me"},
                             !.loggedOut = FALSE, !.last = <<"login", "ok">>]
    /\ UNCHANGED <<now, users, policy, req, proc>>

\* the timer of the refresh effect fires: its callback sends the refresh
\* request
TimerFire ==
    /\ fe.timer.on
    /\ fe.timer.due <= now
    /\ "timer" \notin fe.inflight
    /\ fe' = [fe EXCEPT !.timer = NoTimer, !.inflight = @ \cup {"timer"},
                        !.last = <<"timer", "fired">>]
    /\ UNCHANGED <<now, users, policy, req, proc>>

\* the answers to a refresh request: a token, a token without a decodable
\* expiry, a status that is not ok, a failed fetch
RefreshResults == {"ok", "opaque", "status", "throw"}

\* the rest of a refresh after its fetch returned at time t: the new token
\* is stored and set and fetchCurrentUser is called, or the session is
\* cleared
RefreshDone(f, result, t) ==
    IF result \in {"ok", "opaque"}
    THEN LET token == FeToken(IF result = "ok" THEN t + TokenLife ELSE NoExp)
             g == SetAccessToken([f EXCEPT !.storage = token], token, t)
         IN  [g EXCEPT !.inflight = @ \cup {"me"}]
    ELSE ClearSession(f, t)

RefreshEvent(who, result) ==
    IF result \in {"ok", "opaque"} THEN <<who, "ok">> ELSE <<who, "fail">>

\* the refresh request of the timer callback returns
TimerRefreshReturns ==
    /\ "timer" \in fe.inflight
    /\ \E result \in RefreshResults :
         LET f == [fe EXCEPT !.inflight = @ \ {"timer"}]
         IN  fe' = [RefreshDone(f, result, now) EXCEPT
                      !.last = RefreshEvent("timer", result)]
    /\ UNCHANGED <<now, users, policy, req, proc>>

\* refreshToken() is called
ManualRefresh ==
    /\ "manual" \notin fe.inflight
    /\ fe' = [fe EXCEPT !.inflight = @ \cup {"manual"}, !.last = <<"manual", "call">>]
    /\ UNCHANGED <<now, users, policy, req, proc>>

\* the refresh request of refreshToken() returns
ManualRefreshReturns ==
    /\ "manual" \in fe.inflight
    /\ \E result \in RefreshResults :
         LET f == [fe EXCEPT !.inflight = @ \ {"manual"}]
         IN  fe' = [RefreshDone(f, result, now) EXCEPT
                      !.last = RefreshEvent("manual", result)]
    /\ UNCHANGED <<now, users, policy, req, proc>>

\* the /auth/me request of fetchCurrentUser returns
MeReturns ==
    /\ "me" \in fe.inflight
    /\ \E ok \in BOOLEAN :
         LET f == [fe EXCEPT !.inflight = @ \ {"me"}]
         IN  fe' = IF ok
                   THEN [f EXCEPT !.user = TRUE, !.last = <<"me", "ok">>]
                   ELSE [SetAccessToken([f EXCEPT !.storage = NoToken],
                                        NoToken, now)
                           EXCEPT !.last = <<"me", "fail">>]
    /\ UNCHANGED <<now, users, policy, req, proc>>

\* logout() is called and sends its request
Logout ==
    /\ "logout" \notin fe.inflight
    /\ fe' = [fe EXCEPT !.inflight = @ \cup {"logout"}, !.last = <<"logout", "call">>]
    /\ UNCHANGED <<now, users, policy, req, proc>>

\* the request of logout() returns or fails, and logout clears the session
LogoutReturns ==
    /\ "logout" \in fe.inflight
    /\ fe' = [ClearSession([fe EXCEPT !.inflight = @ \ {"logout"}], now)
                EXCEPT !.loggedOut = TRUE, !.last = <<"logout", "ok">>]
    /\ UNCHANGED <<now, users, policy, req, proc>>

\* a minute passes; a timer that is due fires within its minute
FeTick ==
    /\ now < MaxClock
    /\ ~(fe.timer.on /\ fe.timer.due <= now)
    /\ now' = now + 1
    /\ UNCHANGED <<users, policy, req, proc, fe>>

NextFE ==
    \/ LoginSuccess
    \/ TimerFire
    \/ TimerRefreshReturns
    \/ ManualRefresh
    \/ ManualRefreshReturns
    \/ MeReturns
    \/ Logout
    \/ LogoutReturns
    \/ FeTick

SpecFE == Init /\ [][NextFE]_vars

\* the browser keeps running: time passes, due timers fire and the requests
\* of the timer callback return
SpecFELive ==
    /\ SpecFE
    /\ WF_vars(FeTick)
    /\ WF_vars(TimerFire)
    /\ WF_vars(TimerRefreshReturns)

(***************************************************************************)
(* Properties                                                              *)
(***************************************************************************)
InTrace(q, e) == \E i \in 1..Len(q.trace) : q.trace[i] = e

\* the request passed the Auth middleware: Auth called next
PassedAuth(q) == "Auth" \in {q.route.chain[i] : i \in 1..Len(q.route.chain)}
                 /\ q.pc \in {"Authorize", "handler", "done"}
                 /\ q.by # "Auth"
                 /\ q.method # "OPTIONS"

Authorized(route) ==
    "Authorize" \in {route.chain[i] : i \in 1..Len(route.chain)}

Protected(route) ==
    "Auth" \in {route.chain[i] : i \in 1..Len(route.chain)}

Inactive(table, s) == table[s].exists /\ ~table[s].is_active

\* C1: whenever the users table holds is_active = false for a subject, no
\* request carrying a valid token of that subject is passed on by Auth to
\* the next handler, also when the sync fails or its context is cancelled.
C1_FailClosedDeactivation ==
    [][\A r \in Reqs :
         (req[r].pc = "Auth" /\ req'[r].pc \in {"Authorize", "handler"})
         => ~Inactive(users', req'[r].claims.sub)]_vars

\* C2: a request whose token verified and whose sync returned an error is
\* not answered by Auth: Auth calls the next handler, with the user id,
\* email and name of the token's claims in the request context.
C2_SyncFailureAbsorbed ==
    \A r \in Reqs :
      req[r].syncErr \notin {"-", ""}
      => LET tok == TokenTable[req[r].header[3]] IN
         /\ PassedAuth(req[r])
         /\ req[r].ctx[UserIDKey] = tok.sub
         /\ req[r].ctx[EmailKey] = tok.email
         /\ req[r].ctx[NameKey] = tok.name

C2_Witness ==
    \E r \in Reqs :
      /\ req[r].syncErr \notin {"-", ""}
      /\ req[r].pc = "done"
      /\ InTrace(req[r], "dispatched")

\* the header is absent or is not "Bearer", one space, one word
BadHeader(h) ==
    ~(Len(h) = 3 /\ h[1] = "Bearer" /\ h[2] = SP /\ h[3] # SP)

\* the token is malformed, not signed by the auth-service's private key,
\* or expired at time t
BadToken(id, t) ==
    \/ id \notin TokenIds
    \/ TokenTable[id].form # "jws"
    \/ TokenTable[id].signer # "authPriv"
    \/ (TokenTable[id].exp # NoExp /\ TokenTable[id].exp <= t)

\* C3: Auth answers 401 and does not call the next handler when the
\* Authorization header is absent or malformed or the token is malformed,
\* signed with another key, carries a bad signature or is expired.
C3_Unauthenticated401 ==
    [][\A r \in Reqs :
         (/\ req[r].pc = "Auth"
          /\ req'[r].pc # "Auth"
          /\ (BadHeader(req[r].header) \/ BadToken(req[r].header[3], now)))
         => /\ req'[r].pc = "done"
            /\ req'[r].status = 401
            /\ req'[r].by = "Auth"
            /\ ~InTrace(req'[r], "dispatched")]_vars

C3_Witness ==
    \E r \in Reqs :
      /\ req[r].header = Bearer("tExp")
      /\ req[r].pc = "done"
      /\ req[r].by = "Auth"
      /\ req[r].status = 401

\* C4: a request that Auth rejects with 401 has caused no call of
\* CreateOrUpdateUser and no call of the enforcer, and the users table is
\* the same after its rejection as before.
C4_ShortCircuit ==
    [][\A r \in Reqs :
         (req'[r].pc = "done" /\ req'[r].by = "Auth" /\ req'[r].status = 401)
         => /\ req'[r].syncCalls = 0
            /\ req'[r].enforceCalls = 0
            /\ req'[r].writes = 0
            /\ (req[r].pc = "Auth" => users' = users)]_vars

C4_Witness ==
    \E r \in Reqs :
      /\ req[r].header = Bearer("tOther")
      /\ req[r].pc = "done"
      /\ req[r].by = "Auth"
      /\ req[r].status = 401
      /\ \E s \in Subjects : users[s].exists

\* C5: a request whose token verified and whose sync returned a record
\* with is_active = false is answered 403 by Auth; neither Authorize nor
\* the route's handler runs for it.
C5_InactiveForbidden ==
    \A r \in Reqs :
      req[r].synced = "inactive"
      => /\ req[r].pc = "done"
         /\ req[r].by = "Auth"
         /\ req[r].status = 403
         /\ req[r].enforceCalls = 0
         /\ ~InTrace(req[r], "dispatched")

C5_Witness ==
    \E r \in Reqs : req[r].synced = "inactive" /\ req[r].pc = "done"

\* C6: in Authorize, with a user id in the context, an enforcer error gives
\* 500, a denial without error gives 403 and only an allow without error
\* calls the next handler; a request no rule matches is never answered 500
\* unless the enforcer failed.
C6_AuthorizeOutcomes ==
    \A r \in Reqs :
      req[r].enforceCalls > 0
      => LET q == req[r]
             answered == q.pc = "done" /\ q.by = "Authorize"
             matches == Enforce(policy, "user", q.path, q.method)
         IN  /\ InTrace(q, "enforce:fault") => answered /\ q.status = 500
             /\ (~InTrace(q, "enforce:fault") /\ ~matches)
                  => answered /\ q.status = 403
             /\ (~InTrace(q, "enforce:fault") /\ matches)
                  => ~answered /\ q.pc \in {"handler", "done"}
             /\ InTrace(q, "dispatched")
                  => ~InTrace(q, "enforce:fault") /\ matches

C6_Witness ==
    \E r \in Reqs :
      /\ req[r].enforceCalls > 0
      /\ req[r].by = "Authorize"
      /\ req[r].status = 403

\* C7: on a route behind Auth and Authorize the handler runs only after the
\* token verified, then the sync returned (an active record, or an error),
\* then the enforcer allowed the request, in this order.
C7_PipelineOrder ==
    \A r \in Reqs :
      (Authorized(req[r].route) /\ InTrace(req[r], "dispatched"))
      => /\ req[r].trace = <<"verified", "synced", "enforce:allow", "dispatched">>
         /\ req[r].verr = ""
         /\ (req[r].synced = "active" \/ req[r].syncErr \notin {"-", ""})

C7_Witness ==
    \E r \in Reqs :
      /\ Authorized(req[r].route)
      /\ InTrace(req[r], "dispatched")
      /\ req[r].synced = "active"

\* C8: every route behind Auth, GET /api/v1/auth/me included, runs its
\* handler only after the enforcer allowed the request's path and method.
C8_AuthorizationOnEveryProtectedRoute ==
    \A r \in Reqs :
      (Protected(req[r].route) /\ InTrace(req[r], "dispatched"))
      => InTrace(req[r], "enforce:allow")

\* C9: GET /api/v1/auth/me with a valid token of an active subject is
\* dispatched and answered by GetCurrentUser with a 2xx status.
C9_MeAnswersWithUser ==
    \A r \in Reqs :
      (/\ req[r].method = "GET"
       /\ req[r].path = Me
       /\ req[r].synced = "active"
       /\ req[r].pc = "done")
      => /\ req[r].by = "GetCurrentUser"
         /\ req[r].status \in 200..299

\* C10: a token whose header declares a method that is not an RSA method is
\* rejected by ValidateAccessToken whatever its signature and claims, and
\* the public key is not handed to the verifier for it.
C10_AlgorithmConfusion ==
    \A r \in Reqs :
      (/\ req[r].verr # "-"
       /\ req[r].header[3] \in TokenIds
       /\ TokenTable[req[r].header[3]].form = "jws"
       /\ TokenTable[req[r].header[3]].alg \notin {"RS256", "RS384", "RS512"})
      => /\ req[r].verr # ""
         /\ ~req[r].keyHanded
         /\ req[r].status = 401
         /\ req[r].syncCalls = 0

C10_Witness ==
    \E r \in Reqs :
      /\ req[r].header = Bearer("tHS256")
      /\ req[r].verr = "unexpected signing method"
      /\ req[r].pc = "done"

\* the token of a request whose header Auth could split
TokenOf(q) == TokenTable[q.header[3]]

\* C11: ValidateAccessToken returns claims only for a token whose header
\* declares RS256; a token that declares RS384 or RS512 is rejected even
\* when its signature verifies under the configured public key.
C11_OnlyRS256 ==
    \A r \in Reqs :
      (req[r].verr = "" /\ req[r].header[3] \in TokenIds)
      => TokenOf(req[r]).alg = "RS256"

\* C12: every token ValidateAccessToken returns claims for carries an
\* expiry that is later than the time of the validation; a correctly signed
\* token without an expiry claim is rejected like an expired one.
C12_AcceptedTokenExpiresLater ==
    [][\A r \in Reqs :
         (req[r].verr = "-" /\ req'[r].verr = "")
         => /\ TokenOf(req'[r]).exp # NoExp
            /\ now < TokenOf(req'[r]).exp]_vars

\* request r has just returned from a call of CreateOrUpdateUser
Synced(r) == req'[r].syncCalls = req[r].syncCalls + 1

\* C13: a successful CreateOrUpdateUser for a subject that has a row changes
\* only email, name and updated_at of that row: its id, is_active,
\* created_at, google_id and avatar_url stay, every other row stays, and no
\* step removes a row; so the upsert never makes an inactive row active.
C13_UpsertFrame ==
    [][/\ \A s \in Subjects : users[s].exists => users'[s].exists
       /\ \A r \in Reqs :
            (/\ Synced(r)
             /\ req'[r].syncErr = ""
             /\ users[req'[r].claims.sub].exists)
            => LET sub == req'[r].claims.sub IN
               /\ users'[sub].id = users[sub].id
               /\ users'[sub].is_active = users[sub].is_active
               /\ users'[sub].created_at = users[sub].created_at
               /\ users'[sub].google_id = users[sub].google_id
               /\ users'[sub].avatar_url = users[sub].avatar_url
               /\ users'[sub].email = req'[r].claims.email
               /\ users'[sub].name = req'[r].claims.name
               /\ \A o \in Subjects \ {sub} : users'[o] = users[o]]_vars

\* a request of an inactive subject whose sync rewrote the email or the name
\* of the subject's row and returned it
C13_Witness ==
    \E r \in Reqs :
      /\ req[r].found = "changed"
      /\ req[r].syncErr = ""
      /\ req[r].synced = "inactive"
      /\ ~users[req[r].claims.sub].is_active
      /\ users[req[r].claims.sub].email = req[r].claims.email

\* C14: CreateOrUpdateUser called again with the subject, email and name of
\* the call before it leaves the one row of the subject as that call left
\* it, in every field but updated_at, and leaves every other row alone.
C14_Idempotent ==
    [][\A r \in Reqs :
         (/\ Synced(r)
          /\ req'[r].syncErr = ""
          /\ users[req'[r].claims.sub].exists
          /\ users[req'[r].claims.sub].email = req'[r].claims.email
          /\ users[req'[r].claims.sub].name = req'[r].claims.name)
         => LET sub == req'[r].claims.sub IN
            /\ [users'[sub] EXCEPT !.updated_at = users[sub].updated_at]
                 = users[sub]
            /\ users'[sub].updated_at = now
            /\ \A o \in Subjects \ {sub} : users'[o] = users[o]]_vars

\* a request whose sync met the row an earlier sync of the same subject,
\* email and name had written, at a later time
C14_Witness ==
    \E r \in Reqs :
      /\ req[r].found = "same"
      /\ req[r].syncErr = ""
      /\ req[r].pc = "done"
      /\ users[req[r].claims.sub].is_active
      /\ users[req[r].claims.sub].created_at
           < users[req[r].claims.sub].updated_at

\* another subject's row holds the email
HeldByOther(table, sub, email) ==
    \E o \in Subjects \ {sub} : table[o].exists /\ table[o].email = email

\* C15: however the syncs of concurrent requests with the same claims
\* interleave, each of them is one atomic insert-or-update: unless the
\* persistence layer fails or another subject holds the email, the call
\* returns the subject's row without error, whether the subject was unseen
\* or a concurrent call has just inserted it, and the subject has one row.
C15_ConcurrentFirstSync ==
    [][\A r \in Reqs :
         (/\ Synced(r)
          /\ req'[r].syncErr \notin {"fail", "cancel"}
          /\ ~HeldByOther(users, req'[r].claims.sub, req'[r].claims.email))
         => LET sub == req'[r].claims.sub IN
            /\ req'[r].syncErr = ""
            /\ req'[r].synced # "nil"
            /\ req'[r].writes = 1
            /\ users'[sub].exists
            /\ users'[sub].id = sub
            /\ users'[sub].email = req'[r].claims.email
            /\ \A o \in Subjects \ {sub} : users'[o] = users[o]]_vars

\* two requests in flight with the same token, both synced without error:
\* one inserted the row of the unseen subject, the other updated it
C15_Witness ==
    /\ req["r1"].header = req["r2"].header
    /\ \A r \in Reqs : req[r].pc \notin {"idle", "done"} /\ req[r].syncErr = ""
    /\ {req["r1"].found, req["r2"].found} = {"absent", "same"}
    /\ users[req["r1"].claims.sub].exists

\* C16: in every reachable state of the users table no two rows of
\* different subjects hold the same email, and every row is the row of the
\* subject it is filed under, also after syncs that change a subject's email.
C16_EmailUnique ==
    /\ \A a, b \in Subjects :
         (a # b /\ users[a].exists /\ users[b].exists)
         => users[a].email # users[b].email
    /\ \A s \in Subjects : users[s].exists => users[s].id = s

\* both subjects have rows and a sync that would have given a subject the
\* other subject's email was refused
C16_Witness ==
    /\ \A s \in Subjects : users[s].exists
    /\ \E r \in Reqs :
         /\ req[r].syncErr = "unique"
         /\ req[r].found = "changed"
         /\ HeldByOther(users, req[r].claims.sub, req[r].claims.email)

\* C17: the public key is fetched once, by config.Load at the start of the
\* process; a failed fetch ends the process, which then never serves; a
\* serving process holds the fetched key, and no step of a serving process,
\* so no request, changes the key or fetches again.
C17_KeyLifecycle ==
    [][/\ proc'.fetches <= 1
       /\ (proc'.fetches # proc.fetches) => proc.phase = "start"
       /\ (proc'.fetches # proc.fetches /\ proc'.key # PublicKey)
           => proc'.phase = "exited"
       /\ (proc.phase = "exited") => (proc' = proc /\ req' = req)
       /\ (proc'.phase = "serving")
           => (proc'.fetches = 1 /\ proc'.key = PublicKey)
       /\ (proc.phase = "serving") => proc' = proc
       /\ (req' # req) => (proc.phase = "serving" /\ proc' = proc)]_vars

\* a process that fetched the key at its start, serves, and has verified a
\* request's token with that key
C17_Witness ==
    /\ proc.phase = "serving"
    /\ proc.fetches = 1
    /\ \E r \in Reqs : req[r].keyHanded /\ req[r].verr = "" /\ req[r].pc = "done"

\* C18: no request changes the enforcer's rule set, which stays the set
\* loaded at startup, and what Authorize decides for a request is what that
\* set says for the role "user", the request's path and its method,
\* whoever the subject is and whatever requests came before.
C18_PolicyReadOnly ==
    [][/\ (proc.phase = "serving")
           => (policy = proc.snapshot /\ policy' = policy)
       /\ \A r \in Reqs :
            (req'[r].enforceCalls = req[r].enforceCalls + 1)
            => LET says == Enforce(proc.snapshot, "user", req[r].path,
                                   req[r].method)
               IN  /\ InTrace(req'[r], "enforce:allow") => says
                   /\ InTrace(req'[r], "enforce:deny") => ~says]_vars

\* subject B's request is allowed by the loaded rules after subject A has
\* been served
C18_Witness ==
    /\ proc.phase = "serving"
    /\ proc.snapshot # {}
    /\ policy = proc.snapshot
    /\ users["A"].exists
    /\ \E r \in Reqs :
         /\ req[r].claims.sub = "B"
         /\ InTrace(req[r], "enforce:allow")
         /\ req[r].pc = "done"

ItemsWildcard == Rule("user", Items \o <<"*">>, {"GET", "PATCH", "DELETE"})

\* a rule matches: its role is the role, its resource pattern is the path
\* or ends in a wildcard segment under whose prefix the path lies, and its
\* action pattern lists the action
RuleMatches(p, role, path, action) ==
    /\ p.sub = role
    /\ \/ p.obj = path
       \/ /\ p.obj # <<>>
          /\ p.obj[Len(p.obj)] = "*"
          /\ Len(path) >= Len(p.obj)
          /\ SubSeq(path, 1, Len(p.obj) - 1) = SubSeq(p.obj, 1, Len(p.obj) - 1)
    /\ action \in p.act

\* C19: the enforcer allows (role, path, action) iff some rule matches it.
\* With the seeded rule (user, /api/v1/items/*, (GET)|(PATCH)|(DELETE)):
\* user may GET /api/v1/items/42, user may not POST it, admin may not GET it.
C19_PolicyEvaluation ==
    /\ \A r \in Reqs :
         /\ InTrace(req[r], "enforce:allow")
            => \E p \in policy :
                 RuleMatches(p, "user", req[r].path, req[r].method)
         /\ InTrace(req[r], "enforce:deny")
            => ~\E p \in policy :
                  RuleMatches(p, "user", req[r].path, req[r].method)
    /\ ItemsWildcard \in policy
    /\ Enforce(policy, "user", Items \o <<"42">>, "GET")
    /\ ~Enforce(policy, "user", Items \o <<"42">>, "POST")
    /\ ~Enforce(policy, "admin", Items \o <<"42">>, "GET")

\* a request the wildcard rule allows, and no other rule
C19_Witness ==
    \E r \in Reqs :
      /\ req[r].method = "DELETE"
      /\ req[r].path = Items \o <<"42">>
      /\ InTrace(req[r], "enforce:allow")
      /\ \A p \in policy \ {ItemsWildcard} :
           ~RuleMatches(p, "user", req[r].path, req[r].method)

\* C20: a request whose token verifies makes Auth call CreateOrUpdateUser
\* once, also when the call fails, and causes at most one write to the users
\* table; a request whose token does not verify causes no call; and no
\* step of the pipeline other than that call writes to the table.
C20_OneSyncOneWrite ==
    [][/\ \A r \in Reqs :
            /\ (req'[r].verr = "") => req'[r].syncCalls = 1
            /\ (req'[r].verr # "") => req'[r].syncCalls = 0
            /\ req'[r].writes <= req'[r].syncCalls
       /\ (users' # users)
           => \/ \E r \in Reqs :
                   /\ Synced(r)
                   /\ req'[r].writes = req[r].writes + 1
                   /\ \A o \in Reqs \ {r} : req'[o] = req[o]
              \/ req' = req]_vars

\* a request whose one sync failed and wrote nothing, dispatched all the same
C20_Witness ==
    \E r \in Reqs :
      /\ req[r].verr = ""
      /\ req[r].syncErr = "fail"
      /\ req[r].syncCalls = 1
      /\ req[r].writes = 0
      /\ InTrace(req[r], "dispatched")

\* the public endpoints and their handlers
PublicEndpoints ==
    { <<"GET", <<"api", "v1", "health">>, "health">>,
      <<"POST", <<"api", "v1", "auth", "refresh">>, "RefreshToken">>,
      <<"POST", <<"api", "v1", "auth", "logout">>, "Logout">> }

\* C23: a request to GET /health, POST /auth/refresh or POST /auth/logout
\* reaches its handler without passing through Auth or Authorize: no token
\* is verified, no identity row is written and no policy decision is taken,
\* with or without an Authorization header.
C23_PublicEndpoints ==
    \A r \in Reqs : \A e \in PublicEndpoints :
      (req[r].method = e[1] /\ req[r].path = e[2])
      => /\ req[r].pc \in {"CORS", "handler", "done"}
         /\ req[r].verr = "-"
         /\ ~req[r].keyHanded
         /\ req[r].syncCalls = 0
         /\ req[r].writes = 0
         /\ req[r].enforceCalls = 0
         /\ (req[r].pc = "done")
            => (req[r].by = e[3] /\ InTrace(req[r], "dispatched"))

\* a logout request that carries a token was answered by its handler
C23_Witness ==
    \E r \in Reqs :
      /\ req[r].method = "POST"
      /\ req[r].path = <<"api", "v1", "auth", "logout">>
      /\ req[r].header = Bearer("tA1")
      /\ req[r].pc = "done"
      /\ req[r].by = "Logout"

\* C24: an OPTIONS request to a registered route, public or protected, is
\* answered 204 by CORS and reaches neither Auth and its sync, nor
\* Authorize, nor the route's handler.
C24_PreflightFirst ==
    \A r \in Reqs :
      (req[r].method = "OPTIONS" /\ req[r].route # NoRoute)
      => /\ req[r].pc \in {"CORS", "done"}
         /\ req[r].verr = "-"
         /\ req[r].syncCalls = 0
         /\ req[r].enforceCalls = 0
         /\ ~InTrace(req[r], "dispatched")
         /\ (req[r].pc = "done")
            => (req[r].by = "CORS" /\ req[r].status = 204)

\* a preflight without a token to a route behind Auth and Authorize was
\* answered by CORS
C24_Witness ==
    \E r \in Reqs :
      /\ req[r].method = "OPTIONS"
      /\ req[r].path = Items \o <<"42">>
      /\ req[r].header = <<>>
      /\ req[r].route.chain = <<"Auth", "Authorize">>
      /\ req[r].pc = "done"
      /\ req[r].status = 204

\* the number of times the route's handler was called for the request
Dispatches(q) == Cardinality({i \in 1..Len(q.trace) : q.trace[i] = "dispatched"})

\* C25: Auth and Authorize each either write one error response and do not
\* call next, or call next once and write nothing: a response is written
\* exactly when the request ends, a request rejected by Auth or Authorize
\* was never dispatched (nor, when Auth rejected it, seen by Authorize), a
\* dispatched request was rejected by neither, and no request is dispatched
\* twice; every finished request is either rejected or dispatched.
C25_SingleOutcome ==
    \A r \in Reqs :
      /\ (req[r].status # 0) <=> (req[r].pc = "done")
      /\ Dispatches(req[r]) <= 1
      /\ (req[r].by \in {"Auth", "Authorize"})
         => /\ req[r].status \in {401, 403, 500}
            /\ Dispatches(req[r]) = 0
      /\ (req[r].by = "Auth") => req[r].enforceCalls = 0
      /\ (Dispatches(req[r]) = 1)
         => /\ req[r].by = req[r].route.handler
            /\ Protected(req[r].route) => req[r].verr = ""
            /\ Authorized(req[r].route) => InTrace(req[r], "enforce:allow")
      /\ (req[r].pc = "done" /\ req[r].by \notin {"CORS", "mux"})
         => (Dispatches(req[r]) = 1) # (req[r].by \in {"Auth", "Authorize"})

\* a request that Auth passed on once and Authorize then rejected
C25_Witness ==
    \E r \in Reqs :
      /\ req[r].pc = "done"
      /\ req[r].by = "Authorize"
      /\ req[r].status = 403
      /\ InTrace(req[r], "synced")
      /\ Dispatches(req[r]) = 0

\* C26: once DeactivateUser has committed for a subject, every request of
\* the subject whose sync starts afterwards and succeeds is rejected with
\* 403, however it interleaves with the subject's other requests, and no
\* step of the pipeline makes the subject active again.
C26_DeactivationHolds ==
    [][/\ \A s \in Subjects : Inactive(users, s) => Inactive(users', s)
       /\ \A r \in Reqs :
            (/\ Synced(r)
             /\ req'[r].syncErr = ""
             /\ Inactive(users, req'[r].claims.sub))
            => /\ req'[r].pc = "done"
               /\ req'[r].by = "Auth"
               /\ req'[r].status = 403]_vars

\* a request of the subject was past Auth when the subject was deactivated
\* and is still in flight; the subject's next request was rejected with 403
C26_Witness ==
    \E r, o \in Reqs :
      /\ r # o
      /\ req[r].claims.sub \in Subjects
      /\ req[r].claims.sub = req[o].claims.sub
      /\ Inactive(users, req[r].claims.sub)
      /\ req[r].synced = "inactive"
      /\ req[r].status = 403
      /\ req[o].synced = "active"
      /\ req[o].pc \notin {"idle", "done"}

\* C27: a request with a valid token of a deactivated subject is rejected
\* with 403 after its upsert was applied: the subject's row then holds the
\* email and the name of the token and a new updated_at, and is_active is
\* still false.
C27_WriteBeforeActiveCheck ==
    [][\A r \in Reqs :
         (/\ Synced(r)
          /\ req'[r].syncErr = ""
          /\ Inactive(users, req'[r].claims.sub))
         => LET sub == req'[r].claims.sub IN
            /\ req'[r].status = 403
            /\ req'[r].by = "Auth"
            /\ req'[r].writes = 1
            /\ users'[sub].email = TokenOf(req'[r]).email
            /\ users'[sub].name = TokenOf(req'[r]).name
            /\ users'[sub].updated_at = now
            /\ ~users'[sub].is_active]_vars

\* a request answered 403 whose token's email and name replaced other ones
\* in the row of its inactive subject, after the row's deactivation
C27_Witness ==
    \E r \in Reqs :
      /\ req[r].status = 403
      /\ req[r].by = "Auth"
      /\ req[r].found = "changed"
      /\ req[r].writes = 1
      /\ users[req[r].claims.sub].email = TokenOf(req[r]).email
      /\ users[req[r].claims.sub].name = TokenOf(req[r]).name
      /\ users[req[r].claims.sub].updated_at = now
      /\ users[req[r].claims.sub].created_at < now
      /\ ~users[req[r].claims.sub].is_active

\* C28: when a verified token of a subject carries an email that another
\* subject's row holds, CreateOrUpdateUser returns an error and no row,
\* the table is unchanged, and Auth passes the request on with the token's
\* identity, on each such request and whether or not the subject is active.
C28_EmailCollisionPasses ==
    [][\A r \in Reqs :
         (/\ Synced(r)
          /\ HeldByOther(users, req'[r].claims.sub, req'[r].claims.email))
         => /\ req'[r].syncErr \in {"unique", "fail"}
            /\ req'[r].synced = "nil"
            /\ req'[r].writes = 0
            /\ users' = users
            /\ req'[r].status = 0
            /\ req'[r].pc = NextStage(req[r].route, "Auth")
            /\ req'[r].ctx[UserIDKey] = req'[r].claims.sub]_vars

\* a request of a deactivated subject whose sync was refused for its email
\* reached the handler
C28_Witness ==
    \E r \in Reqs :
      /\ req[r].syncErr = "unique"
      /\ Inactive(users, req[r].claims.sub)
      /\ HeldByOther(users, req[r].claims.sub, req[r].claims.email)
      /\ InTrace(req[r], "dispatched")

\* C29: whenever Auth has called next, the user id, the email and the name
\* in the request context are those of the verified token, whether the
\* sync succeeded or failed, and GetUserID returns the token's subject; so
\* Authorize never answers 401 on a route behind Auth.
C29_IdentityFromToken ==
    \A r \in Reqs :
      /\ PassedAuth(req[r])
         => /\ req[r].ctx[UserIDKey] = TokenOf(req[r]).sub
            /\ req[r].ctx[EmailKey] = TokenOf(req[r]).email
            /\ req[r].ctx[NameKey] = TokenOf(req[r]).name
            /\ GetUserID(req[r].ctx) =
                 [userID |-> TokenOf(req[r]).sub, ok |-> TRUE]
      /\ ~(req[r].by = "Authorize" /\ req[r].status = 401)

\* a request whose sync failed was taken by Authorize under the subject of
\* its token
C29_Witness ==
    \E r \in Reqs :
      /\ req[r].syncErr = "fail"
      /\ req[r].enforceCalls = 1
      /\ req[r].header = Bearer("tB")
      /\ req[r].ctx[UserIDKey] = "B"
      /\ ~users["B"].exists

\* C21: POST /api/v1/auth/refresh is answered with a success response, which
\* carries the new access token.
C21_RefreshSucceeds ==
    \A r \in Reqs :
      (/\ req[r].method = "POST"
       /\ req[r].path = <<"api", "v1", "auth", "refresh">>
       /\ req[r].pc = "done")
      => req[r].status \in 200..299

\* the time a refresh is due for a token of expiry e held from time t on:
\* two minutes before e, or t when that has passed
DueFor(e, t) == IF e - RefreshBuffer > t THEN e - RefreshBuffer ELSE t

\* the refresh request of the timer callback returns in this step
TimerReturned == "timer" \in fe.inflight /\ "timer" \notin fe'.inflight

\* C22: when the AuthProvider comes to hold an access token whose expiry E
\* can be decoded, a timer is set for max(now, E - 2 min), and the refresh
\* request is sent when that time has come and not before.  When the
\* request succeeds, the new token is stored and set, and for a new token
\* with a decodable expiry a new refresh is scheduled; when it fails or
\* throws, sessionStorage holds no token, accessToken and user are null and
\* no timer is left.  No timer due within the explored time stays pending
\* for ever: it fires or the token it was set for is replaced.
C22_AutomaticRefresh ==
    /\ \A d \in 0..MaxClock : (fe.timer = Timer(d)) ~> (fe.timer # Timer(d))
    /\ [][/\ (/\ fe'.accessToken # fe.accessToken
              /\ fe'.accessToken.set
              /\ fe'.accessToken.exp # NoExp)
             => fe'.timer = Timer(DueFor(fe'.accessToken.exp, now))
          /\ (fe.timer.on /\ now' # now) => now' <= fe.timer.due
          /\ ("timer" \in fe'.inflight /\ "timer" \notin fe.inflight)
             => /\ fe.timer.on
                /\ fe.timer.due = now
                /\ fe.accessToken.set
                /\ fe.accessToken.exp # NoExp
          /\ (TimerReturned /\ fe'.last = <<"timer", "ok">>)
             => /\ fe'.accessToken.set
                /\ fe'.storage = fe'.accessToken
                /\ fe'.accessToken.exp \in {now + TokenLife, NoExp}
                /\ (fe'.accessToken.exp # NoExp)
                   => fe'.timer = Timer(DueFor(fe'.accessToken.exp, now))
          /\ (TimerReturned /\ fe'.last = <<"timer", "fail">>)
             => /\ ~fe'.storage.set
                /\ ~fe'.accessToken.set
                /\ ~fe'.user
                /\ ~fe'.timer.on]_vars

\* the timer's refresh succeeded for a signed-in user at a later time than
\* the login, and the next refresh is scheduled before the new token's
\* expiry
C22_Witness ==
    /\ fe.last = <<"timer", "ok">>
    /\ fe.user
    /\ now > 0
    /\ fe.accessToken = FeToken(now + TokenLife)
    /\ fe.storage = fe.accessToken
    /\ fe.timer = Timer(now + TokenLife - RefreshBuffer)

\* C30: after logout() has cleared the session it stays unauthenticated,
\* with accessToken null and no token in sessionStorage, until the next
\* AUTH_SUCCESS message: a refresh that was in flight when logout ran
\* stores and sets no token.
C30_LogoutFinal ==
    fe.loggedOut => (~fe.accessToken.set /\ ~fe.storage.set)

====
